---- MODULE Spec2Model ----
(***************************************************************************)
(* EDStS plugin: the journal-event delivery pipeline of load.py,            *)
(* workers/fc_worker.py and permissions.py.                                 *)
(*                                                                          *)
(* Threads of control:                                                      *)
(*   - the host (EDMC main) thread, which calls the plugin hooks            *)
(*     plugin_start3, plugin_app, journal_entry, save_api_key,              *)
(*     clear_api_key and plugin_stop;                                       *)
(*   - the general worker thread (load.worker);                             *)
(*   - the fleet-carrier worker thread (FCWorker._worker_loop);             *)
(*   - one thread per fired threading.Timer (periodic_check).               *)
(* Network calls are split into the moment the request is sent and the      *)
(* moment its response (or exception) comes back.                           *)
(***************************************************************************)
EXTENDS Integers, Sequences, FiniteSets, TLC

\* ------------------------------------------------------------------ bounds

\* accepted events the host hands over in one run
MaxEvents == 2
\* threading.Timer objects alive at once
MaxTimers == 2
\* characters of the configured permission string
MaxPermLen == 3
\* events a caller of worker() has put on event_queue
MaxGenEvents == 1

\* ------------------------------------------------------- python values

\* A Python value of the kinds a JSON "valid" field can take.
PyBool(b) == [t |-> "bool", b |-> b,     n |-> 0, s |-> <<>>]
PyInt(n)  == [t |-> "int",  b |-> FALSE, n |-> n, s |-> <<>>]
PyStr(s)  == [t |-> "str",  b |-> FALSE, n |-> 0, s |-> s]
PyNone    == [t |-> "none", b |-> FALSE, n |-> 0, s |-> <<>>]

\* Python truthiness, as `not x` / `if x` read it.
Truthy(v) ==
    CASE v.t = "bool" -> v.b
      [] v.t = "int"  -> v.n # 0
      [] v.t = "str"  -> v.s # <<>>
      [] OTHER        -> FALSE

IsBool(v) == v.t = "bool"

\* str.lower() on the characters the responses use.
LowerChar(c) ==
    CASE c = "T" -> "t"
      [] c = "R" -> "r"
      [] c = "U" -> "u"
      [] c = "E" -> "e"
      [] c = "F" -> "f"
      [] c = "A" -> "a"
      [] c = "L" -> "l"
      [] c = "S" -> "s"
      [] c = "Y" -> "y"
      [] OTHER   -> c

Lower(s) == [i \in 1..Len(s) |-> LowerChar(s[i])]

\* ------------------------------------------------------------- dicts

Has(d, k) == k \in DOMAIN d

Put(d, k, v) == [x \in (DOMAIN d) \cup {k} |-> IF x = k THEN v ELSE d[x]]

\* dict.get(k) used as a condition on an integer field: absent or 0 is falsy.
GetTruthy(d, k) == Has(d, k) /\ d[k] # 0

\* ------------------------------------------------------------- filter

FC_EVENTS ==
    { "CarrierJump", "CarrierBuy", "CarrierStats", "CarrierDockingPermission",
      "CarrierCrewServices", "CarrierFinance", "CarrierTradeOrder",
      "CarrierDepositFuel", "Docked", "Undocked", "MarketBuy", "MarketSell",
      "StoredShips", "ShipyardBuy", "ModuleBuy", "ModuleSell" }

should_handle_event_all(entry) == TRUE

\* FCWorker.should_handle_event: entry.get("event") in FC_EVENTS
should_handle_event(entry) == Has(entry, "event") /\ entry["event"] \in FC_EVENTS

\* ---------------------------------------------------------- enrichment

\* FCWorker._handle_event, the two `if state.get(..)` assignments.
enrich(entry, state) ==
    LET e1 == IF GetTruthy(state, "ShipID")
              THEN Put(entry, "_shipId", state["ShipID"])
              ELSE entry
    IN  IF GetTruthy(state, "SystemAddress")
        THEN Put(e1, "_systemAddress", state["SystemAddress"])
        ELSE e1

\* ------------------------------------------------------------ verify

\* The verification responses: a transport exception, or a status with a body
\* that is not JSON, a JSON array, or a JSON object with or without "valid".
Resp(kind, status, has_valid, valid) ==
    [kind |-> kind, status |-> status, has_valid |-> has_valid, valid |-> valid]

ValidValues ==
    { PyBool(TRUE), PyBool(FALSE),
      PyStr(<<"t","r","u","e">>), PyStr(<<"T","r","u","e">>),
      PyStr(<<"T","R","U","E">>), PyStr(<<"f","a","l","s","e">>),
      PyStr(<<"F","a","l","s","e">>), PyStr(<<"y","e","s">>), PyStr(<<>>),
      PyInt(1), PyNone }

VerifyResponses ==
    { Resp("exception", 0, FALSE, PyNone) }
    \cup { Resp(k, st, FALSE, PyNone) : k \in {"malformed", "array", "object"},
                                        st \in {200, 500} }
    \cup { Resp("object", st, TRUE, v) : st \in {200, 500}, v \in ValidValues }

\* The responses of a server that answers "valid" with a boolean or a string:
\* one response of each kind that verify_api_key tells apart
ServerResponses ==
    { r \in VerifyResponses :
        /\ r.kind \in {"exception", "object"}
        /\ r.has_valid => r.valid \in { PyBool(TRUE), PyBool(FALSE),
                                         PyStr(<<"T","r","u","e">>),
                                         PyStr(<<"f","a","l","s","e">>) }
        /\ r.status = 500 => (r.has_valid /\ r.valid = PyBool(TRUE)) }

\* verify_api_key: the value it stores in connection_state["is_connected"]
\* and returns.  requests.get raising, response.json() raising on a body that
\* is not JSON, and result.get raising on a JSON array all reach the except
\* branch, which stores and returns False.
verify_result(r) ==
    IF r.kind # "object" THEN PyBool(FALSE)
    ELSE LET is_valid == IF r.has_valid THEN r.valid ELSE PyBool(FALSE)
         IN  IF is_valid.t = "str"
             THEN PyBool(Lower(is_valid.s) = <<"t","r","u","e">>)
             ELSE is_valid


\* ------------------------------------------------------------ inputs

\* (entry, state) pairs the host passes to journal_entry.  Every entry has a
\* timestamp and every state a Cmdr, as the host's have.
EventInputs ==
    << [entry |-> [timestamp |-> "t1", event |-> "Docked", _systemAddress |-> 8],
        state |-> [Cmdr |-> "c", ShipID |-> 5, SystemAddress |-> 9]],
       [entry |-> [timestamp |-> "t2", event |-> "Undocked", StarSystem |-> "Sol"],
        state |-> [Cmdr |-> "c", ShipID |-> 0]],
       [entry |-> [timestamp |-> "t3", event |-> "FSDJump"],
        state |-> [Cmdr |-> "c", ShipID |-> 5, SystemAddress |-> 9]],
       [entry |-> [timestamp |-> "t4"],
        state |-> [Cmdr |-> "c"]],
       [entry |-> [timestamp |-> "t5", event |-> "docked"],
        state |-> [Cmdr |-> "c", ShipID |-> 5]] >>

\* API keys the user can save; "" is "no key stored".
ApiKeys == {"k1"}

\* The keys of the runs that follow which key a verification was for
VerifyKeys == {"k1", "k2"}

\* Events a caller of worker() puts on event_queue (plain dicts)
GenEvents ==
    { [timestamp |-> "t1", event |-> "Docked"],
      [timestamp |-> "t2", event |-> "Location"] }

\* What the journal endpoint can answer to a POST; 0 stands for requests.post
\* raising (transport failure or timeout).
PostStatuses == {200, 401, 500, 0}

\* --------------------------------------------------------- permissions

\* The literal "EDStS", as the characters of a Python str
EDStS == <<"E", "D", "S", "t", "S">>

\* str.strip(): whitespace is taken off both ends
RECURSIVE Strip(_)
Strip(s) ==
    IF s = <<>> THEN s
    ELSE IF Head(s) = " " THEN Strip(Tail(s))
    ELSE IF s[Len(s)] = " " THEN Strip(SubSeq(s, 1, Len(s) - 1))
    ELSE s

\* str.split(","): the pieces between the commas, empty pieces included
RECURSIVE SplitComma(_)
SplitComma(s) ==
    IF \A k \in DOMAIN s : s[k] # ","
    THEN <<s>>
    ELSE LET k == CHOOSE i \in DOMAIN s :
                      s[i] = "," /\ \A j \in 1..(i - 1) : s[j] # ","
         IN  <<SubSeq(s, 1, k - 1)>> \o SplitComma(SubSeq(s, k + 1, Len(s)))

\* ",".join(pieces)
RECURSIVE JoinComma(_)
JoinComma(pieces) ==
    IF pieces = <<>> THEN <<>>
    ELSE IF Len(pieces) = 1 THEN pieces[1]
    ELSE pieces[1] \o <<",">> \o JoinComma(Tail(pieces))

\* `p.strip() for p in user_perm.split(",") if p.strip()`
StrippedTags(s) ==
    LET pieces == SplitComma(s)
        stripped == [k \in DOMAIN pieces |-> Strip(pieces[k])]
    IN  SelectSeq(stripped, LAMBDA p : p # <<>>)

\* permissions.get_permissions_header, on the configured string (None and ""
\* are both falsy): "EDStS," and the joined tags when the string is not empty
get_permissions_header(user) ==
    IF user = <<>> THEN EDStS
    ELSE EDStS \o <<",">> \o JoinComma(StrippedTags(user))

\* Permission strings the user can configure
PermChars == {"a", "b", " ", ","}
PermStrings == UNION { [1..n -> PermChars] : n \in 0..MaxPermLen }

\* Permission strings of the runs of the general worker
GenPerms == { <<>>, <<"a", ",", "b">> }

\* -------------------------------------------------------------- state

VARIABLES
    \* this.connection_state["is_connected"]
    is_connected,
    \* config "edsts_api_key" ("" when absent)
    api_key,
    \* this.status_label is set
    status_label,
    \* this.shutting_down, this.event_queue, the general worker's position
    shutting_down, event_queue, w_pc,
    \* fc_worker.shutting_down, fc_worker.queue, the FC worker's position and
    \* the item it holds
    fc_shutting_down, fc_queue, fc_pc, fc_cur,
    \* the host thread's position, and what follows an update_status_label
    h_pc, h_after,
    \* plugin_stop has returned
    stopped,
    \* this.verification_timer (0 is None) and each Timer object's state
    verification_timer, tpc,
    \* observation of the transport and of the hooks, for the properties:
    \* the POSTs sent, the order of the FC worker's dequeues, the accepted
    \* events by id, the last verify call, whether a 401 was received since
    \* the last valid verify, whether a non-accepted event reached the filter
    posts, attempts, accepted, last_verify, unauth, offered_bad,
    \* config "edsts_user_permissions" ("" when absent) and the header last
    \* computed from it ("" before the first call)
    user_perm, perm_header,
    \* the key each timer thread's verification request carries
    t_key,
    \* the general worker's event in hand and the outcome of its last
    \* submit_journal_event
    w_cur, w_last

conn_vars   == <<is_connected, last_verify, unauth>>
cfg_vars    == <<api_key, status_label, user_perm, perm_header>>
gen_vars    == <<shutting_down, event_queue, w_pc>>
gen_vars_but_pc == <<shutting_down, event_queue>>
fc_vars     == <<fc_shutting_down, fc_queue, fc_pc, fc_cur>>
host_vars   == <<h_pc, h_after, stopped>>
timer_vars  == <<verification_timer, tpc, t_key>>
log_vars    == <<posts, attempts, accepted, offered_bad>>
sub_vars    == <<w_cur, w_last>>

vars == <<conn_vars, cfg_vars, gen_vars, fc_vars, host_vars, timer_vars, log_vars,
          sub_vars>>

\* The stop sentinel (None) and a real queue entry, the tuple (entry, state),
\* tagged with the id the observation gives the event.
NoneItem == [id |-> 0, entry |-> [timestamp |-> ""], state |-> [Cmdr |-> ""]]
Item(id, entry, state) == [id |-> id, entry |-> entry, state |-> state]
IsNone(item) == item.id = 0

Timers == 1..MaxTimers

\* EDStSState.__init__ and FCWorker.__init__
InitCommon ==
    /\ is_connected = PyBool(FALSE)
    /\ api_key \in ApiKeys \cup {""}
    /\ status_label = FALSE
    /\ shutting_down = FALSE
    /\ w_pc = "unstarted"
    /\ fc_shutting_down = FALSE
    /\ fc_queue = <<>>
    /\ fc_pc = "unstarted"
    /\ fc_cur = NoneItem
    /\ h_pc = "loaded"
    /\ h_after = "idle"
    /\ stopped = FALSE
    /\ verification_timer = 0
    /\ tpc = [i \in Timers |-> "free"]
    /\ posts = <<>>
    /\ attempts = <<>>
    /\ accepted = <<>>
    /\ last_verify = [called |-> FALSE, resp |-> Resp("exception", 0, FALSE, PyNone),
                      ret |-> PyBool(FALSE), key |-> "", by |-> 0]
    /\ unauth = FALSE
    /\ offered_bad = FALSE
    /\ perm_header = <<>>
    /\ t_key = [i \in Timers |-> ""]
    /\ w_cur = NoneItem
    /\ w_last = "none"

\* The plugin as loaded: nothing queued, no permission string configured
Init ==
    /\ InitCommon
    /\ event_queue = <<>>
    /\ user_perm = <<>>

\* The plugin as loaded, with any permission string in the configuration
InitPerm ==
    /\ InitCommon
    /\ event_queue = <<>>
    /\ user_perm \in PermStrings

\* event_queue as a caller of worker() can have filled it: events numbered
\* in queue order
GenQueues ==
    UNION { { [k \in 1..n |-> Item(k, f[k], [Cmdr |-> ""])] : f \in [1..n -> GenEvents] } :
            n \in 1..MaxGenEvents }

\* The plugin as loaded, with events waiting on event_queue
InitGeneral ==
    /\ InitCommon
    /\ event_queue \in GenQueues
    /\ user_perm \in GenPerms


\* ------------------------------------------------------ verification

\* verify_api_key(api_key) once its request has come back with r: the write of
\* connection_state["is_connected"] (both branches) and the returned value.
\* The response and the returned value are kept in last_verify when `obs`
\* (SpecVerify); the other specifications leave last_verify alone.
VerifyWrite(r, obs, key, by) ==
    /\ is_connected' = verify_result(r)
    /\ last_verify' = IF obs
                      THEN [called |-> TRUE, resp |-> r, ret |-> verify_result(r),
                            key |-> key, by |-> by]
                      ELSE last_verify
    /\ unauth' = IF Truthy(verify_result(r)) THEN FALSE ELSE unauth

\* The timers once the calling timer thread has ended and the stored timer
\* has been cancelled (cancel() of a timer that already fired does nothing)
AfterCancel(self) ==
    [i \in Timers |->
        IF i = self THEN "free"
        ELSE IF i = verification_timer /\ tpc[i] = "armed" THEN "free"
        ELSE tpc[i]]

FreeTimers(self) == { i \in Timers : AfterCancel(self)[i] = "free" }

NewTimer(self) == CHOOSE i \in FreeTimers(self) : \A j \in FreeTimers(self) : i <= j

schedule_verification_two(self) ==
    /\ FreeTimers(self) # {}
    /\ verification_timer' = NewTimer(self)
    /\ tpc' = [i \in Timers |->
                  IF i \in FreeTimers(self) THEN "armed" ELSE AfterCancel(self)[i]]
    /\ t_key' = [i \in Timers |-> IF i = self THEN "" ELSE t_key[i]]

\* schedule_verification, called by the thread of timer `self` (0: the host
\* thread): cancel the stored timer, store and start a new one.  The thread
\* of a timer that called it then ends, and its number names the next Timer
\* object created.
schedule_verification(self) ==
    /\ FreeTimers(self) # {}
    /\ verification_timer' = NewTimer(self)
    /\ tpc' = [AfterCancel(self) EXCEPT ![NewTimer(self)] = "armed"]
    /\ t_key' = [i \in Timers |-> IF i = self THEN "" ELSE t_key[i]]

\* ------------------------------------------------------- host thread

\* plugin_start3: start both worker threads
PluginStart3 ==
    /\ h_pc = "loaded"
    /\ h_pc' = "idle"
    /\ w_pc' = "loop"
    /\ fc_pc' = "loop"
    /\ UNCHANGED <<conn_vars, cfg_vars, shutting_down, event_queue,
                   fc_shutting_down, fc_queue, fc_cur, h_after, stopped,
                   timer_vars, log_vars, sub_vars>>

\* plugin_app: set the status label, update_status_label (which sends a
\* verification request when a key is stored), then schedule_verification
PluginApp ==
    /\ h_pc = "idle"
    /\ ~status_label
    /\ status_label' = TRUE
    /\ IF api_key = ""
       THEN /\ schedule_verification(0)
            /\ UNCHANGED <<h_pc, h_after>>
       ELSE /\ h_pc' = "usl_verify"
            /\ h_after' = "schedule"
            /\ UNCHANGED timer_vars
    /\ UNCHANGED <<conn_vars, api_key, user_perm, perm_header, gen_vars, fc_vars,
                   stopped, log_vars, sub_vars>>

\* save_api_key(k) with a non-empty k: store it and send verify_api_key's request
SaveApiKey(k) ==
    /\ h_pc = "idle"
    /\ api_key' = k
    /\ h_pc' = "save_verify"
    /\ UNCHANGED <<conn_vars, status_label, user_perm, perm_header, gen_vars,
                   fc_vars, h_after, stopped,
                   timer_vars, log_vars, sub_vars>>

\* The host thread's verification request comes back.  After save_api_key's
\* own verify comes update_status_label, which verifies once more when the
\* label exists; after plugin_app's comes schedule_verification.
HostVerifyReturn(r, obs) ==
    /\ h_pc \in {"save_verify", "usl_verify"}
    /\ VerifyWrite(r, obs, api_key, 0)
    /\ IF h_pc = "save_verify" /\ status_label /\ api_key # ""
       THEN /\ h_pc' = "usl_verify"
            /\ h_after' = "idle"
            /\ UNCHANGED timer_vars
       ELSE /\ h_pc' = "idle"
            /\ h_after' = "idle"
            /\ IF h_pc = "usl_verify" /\ h_after = "schedule"
               THEN schedule_verification(0)
               ELSE UNCHANGED timer_vars
    /\ UNCHANGED <<cfg_vars, gen_vars, fc_vars, stopped, log_vars, sub_vars>>

HostVerifyEnd(r) == HostVerifyReturn(r, FALSE)

\* clear_api_key: delete the key; update_status_label then finds no key and
\* returns before any verification
ClearApiKey ==
    /\ h_pc = "idle"
    /\ api_key # ""
    /\ api_key' = ""
    /\ UNCHANGED <<conn_vars, status_label, user_perm, perm_header, gen_vars,
                   fc_vars, host_vars,
                   timer_vars, log_vars, sub_vars>>

\* save_user_permissions: store the permission string
SaveUserPermissions(p) ==
    /\ h_pc \in {"loaded", "idle"}
    /\ user_perm' = p
    /\ perm_header' = <<>>
    /\ UNCHANGED <<conn_vars, api_key, status_label, gen_vars, fc_vars, host_vars,
                   timer_vars, log_vars, sub_vars>>

\* A call of get_permissions_header(config); perm_header keeps what it
\* returned for the string now stored
GetPermissionsHeader ==
    /\ perm_header' = get_permissions_header(user_perm)
    /\ UNCHANGED <<conn_vars, api_key, status_label, user_perm, gen_vars, fc_vars,
                   host_vars, timer_vars, log_vars, sub_vars>>

queue_put_twice(q, item) == Append(Append(q, item), item)

\* Queue.put: the item goes to the end of the queue
queue_put(q, item) == Append(q, item)

queue_get_newest(q) == [item |-> q[Len(q)], rest |-> SubSeq(q, 1, Len(q) - 1)]

\* Queue.get on a non-empty queue: the oldest item, and the queue it leaves
queue_get(q) == [item |-> Head(q), rest |-> Tail(q)]

\* FCWorker.process_event: queue.put((entry, state)) when the filter accepts
process_event(entry, state) ==
    IF should_handle_event(entry)
    THEN /\ Len(accepted) < MaxEvents
         /\ fc_queue' = queue_put(fc_queue, Item(Len(accepted) + 1, entry, state))
         /\ accepted' = Append(accepted, [entry |-> entry, state |-> state,
                                          late |-> stopped])
         /\ UNCHANGED offered_bad
    ELSE /\ offered_bad' = TRUE
         /\ UNCHANGED <<fc_queue, accepted>>

JournalEntry_Sync(i) ==
    /\ h_pc = "idle"
    /\ Truthy(is_connected)
    /\ should_handle_event(EventInputs[i].entry)
    /\ Len(accepted) < MaxEvents
    /\ api_key # ""
    /\ accepted' = Append(accepted, [entry |-> EventInputs[i].entry,
                                      state |-> EventInputs[i].state,
                                      late |-> stopped])
    /\ posts' = Append(posts,
           [id |-> Len(accepted) + 1,
            body |-> enrich(EventInputs[i].entry, EventInputs[i].state),
            key |-> api_key,
            perm |-> EDStS,
            by |-> "fc"])
    /\ UNCHANGED <<conn_vars, cfg_vars, gen_vars, fc_vars, host_vars, timer_vars,
                   attempts, offered_bad, sub_vars>>

JournalEntry_General(i) ==
    /\ h_pc = "idle"
    /\ Truthy(is_connected)
    /\ should_handle_event(EventInputs[i].entry)
    /\ Len(accepted) < MaxEvents
    /\ accepted' = Append(accepted, [entry |-> EventInputs[i].entry,
                                      state |-> EventInputs[i].state,
                                      late |-> stopped])
    /\ event_queue' = queue_put(event_queue,
           Item(Len(accepted) + 1, EventInputs[i].entry, EventInputs[i].state))
    /\ UNCHANGED <<conn_vars, cfg_vars, shutting_down, w_pc, fc_vars, host_vars,
                   timer_vars, posts, attempts, offered_bad, sub_vars>>

\* journal_entry(entry, state): nothing when not connected, else
\* fc_worker.process_event
JournalEntry(i) ==
    /\ h_pc = "idle"
    /\ IF ~Truthy(is_connected)
       THEN UNCHANGED <<fc_queue, accepted, offered_bad>>
       ELSE process_event(EventInputs[i].entry, EventInputs[i].state)
    /\ UNCHANGED <<conn_vars, cfg_vars, gen_vars, fc_shutting_down, fc_pc, fc_cur,
                   host_vars, timer_vars, posts, attempts, sub_vars>>

\* plugin_stop, first statement: this.shutting_down = True
PluginStop ==
    /\ h_pc = "idle"
    /\ ~stopped
    /\ shutting_down' = TRUE
    /\ h_pc' = "stop_put"
    /\ UNCHANGED <<conn_vars, cfg_vars, event_queue, w_pc, fc_vars, h_after,
                   stopped, timer_vars, log_vars, sub_vars>>

\* plugin_stop: this.event_queue.put(None), then join(timeout=2), which
\* returns whether or not the worker has ended
StopPut ==
    /\ h_pc = "stop_put"
    /\ event_queue' = queue_put(event_queue, NoneItem)
    /\ h_pc' = "fc_stop"
    /\ UNCHANGED <<conn_vars, cfg_vars, shutting_down, w_pc, fc_vars, h_after,
                   stopped, timer_vars, log_vars, sub_vars>>

\* FCWorker.stop, first statement: self.shutting_down = True
FCStopFlag ==
    /\ h_pc = "fc_stop"
    /\ fc_shutting_down' = TRUE
    /\ h_pc' = "fc_stop_put"
    /\ UNCHANGED <<conn_vars, cfg_vars, gen_vars, fc_queue, fc_pc, fc_cur,
                   h_after, stopped, timer_vars, log_vars, sub_vars>>

FCStopPut_NoSentinel ==
    /\ h_pc = "fc_stop_put"
    /\ h_pc' = "idle"
    /\ stopped' = TRUE
    /\ UNCHANGED <<conn_vars, cfg_vars, gen_vars, fc_vars, h_after,
                   timer_vars, log_vars, sub_vars>>

\* FCWorker.stop: self.queue.put(None) (`if self.queue` holds: a Queue object
\* is always truthy), then join(timeout=2), which returns whether or not the
\* worker has ended; plugin_stop returns
FCStopPut ==
    /\ h_pc = "fc_stop_put"
    /\ fc_queue' = queue_put(fc_queue, NoneItem)
    /\ h_pc' = "idle"
    /\ stopped' = TRUE
    /\ UNCHANGED <<conn_vars, cfg_vars, gen_vars, fc_shutting_down, fc_pc, fc_cur,
                   h_after, timer_vars, log_vars, sub_vars>>


\* ---------------------------------------------------- general worker

\* worker: `while not this.shutting_down`
WLoopCheck ==
    /\ w_pc = "loop"
    /\ w_pc' = IF shutting_down THEN "done" ELSE "get"
    /\ UNCHANGED <<conn_vars, cfg_vars, shutting_down, event_queue, fc_vars,
                   host_vars, timer_vars, log_vars, sub_vars>>

\* worker: event_queue.get(timeout=5) returns an item; None ends the loop,
\* a real event goes to submit_journal_event.  (The plugin itself puts
\* nothing but None on this queue.)
WGet ==
    /\ w_pc = "get"
    /\ event_queue # <<>>
    /\ event_queue' = queue_get(event_queue).rest
    /\ IF IsNone(queue_get(event_queue).item)
       THEN /\ w_pc' = "done"
            /\ UNCHANGED w_cur
       ELSE /\ w_pc' = "submit"
            /\ w_cur' = queue_get(event_queue).item
    /\ UNCHANGED <<conn_vars, cfg_vars, shutting_down, fc_vars, host_vars,
                   timer_vars, log_vars, w_last>>

\* submit_journal_event up to requests.post: False when not connected, False
\* when no key is stored, else the POST is sent with the configured
\* permission header.  A False makes worker() sleep.
WSubmit ==
    /\ w_pc = "submit"
    /\ IF ~Truthy(is_connected) \/ api_key = ""
       THEN /\ w_last' = IF ~Truthy(is_connected) THEN "not_connected" ELSE "no_key"
            /\ w_pc' = "sleep"
            /\ w_cur' = NoneItem
            /\ UNCHANGED posts
       ELSE /\ posts' = Append(posts,
                   [id |-> w_cur.id,
                    body |-> w_cur.entry,
                    key |-> api_key,
                    perm |-> get_permissions_header(user_perm),
                    by |-> "general"])
            /\ w_pc' = "post"
            /\ UNCHANGED <<w_cur, w_last>>
    /\ UNCHANGED <<conn_vars, cfg_vars, gen_vars_but_pc, fc_vars, host_vars,
                   timer_vars, attempts, accepted, offered_bad>>

submit_conn_any_failure(st, conn) == IF st # 200 THEN PyBool(FALSE) ELSE conn

\* submit_journal_event: connection_state["is_connected"] after the response
\* with status st (0: requests.post raised): only 401 writes it
submit_conn(st, conn) == IF st = 401 THEN PyBool(FALSE) ELSE conn

\* submit_journal_event after requests.post: True on 200, False otherwise;
\* worker() sleeps after a False and goes straight on after a True
WResponse(st) ==
    /\ w_pc = "post"
    /\ is_connected' = submit_conn(st, is_connected)
    /\ unauth' = (unauth \/ st = 401)
    /\ w_last' = CASE st = 200 -> "delivered"
                  [] st = 401 -> "unauthorized"
                  [] st = 0   -> "exception"
                  [] OTHER    -> "failed"
    /\ w_pc' = IF st = 200 THEN "loop" ELSE "sleep"
    /\ w_cur' = NoneItem
    /\ UNCHANGED <<last_verify, cfg_vars, gen_vars_but_pc, fc_vars, host_vars,
                   timer_vars, log_vars>>

\* worker: the get times out on an empty queue; queue.Empty is caught by
\* `except Exception`, which logs and sleeps
WGetTimeout ==
    /\ w_pc = "get"
    /\ event_queue = <<>>
    /\ w_pc' = "sleep"
    /\ UNCHANGED <<conn_vars, cfg_vars, shutting_down, event_queue, fc_vars,
                   host_vars, timer_vars, log_vars, sub_vars>>

\* worker: time.sleep(5) ends
WSleepEnd ==
    /\ w_pc = "sleep"
    /\ w_pc' = "loop"
    /\ UNCHANGED <<conn_vars, cfg_vars, shutting_down, event_queue, fc_vars,
                   host_vars, timer_vars, log_vars, sub_vars>>

\* --------------------------------------------------------- FC worker

\* _worker_loop: `while not self.shutting_down`
FCLoopCheck ==
    /\ fc_pc = "loop"
    /\ fc_pc' = IF fc_shutting_down THEN "done" ELSE "get"
    /\ UNCHANGED <<conn_vars, cfg_vars, gen_vars, fc_shutting_down, fc_queue,
                   fc_cur, host_vars, timer_vars, log_vars, sub_vars>>


FCGet_SkipSentinel ==
    /\ fc_pc = "get"
    /\ fc_queue # <<>>
    /\ fc_queue' = queue_get(fc_queue).rest
    /\ IF IsNone(queue_get(fc_queue).item)
       THEN /\ fc_pc' = "get"
            /\ UNCHANGED <<fc_cur, attempts>>
       ELSE /\ fc_pc' = "handle"
            /\ fc_cur' = queue_get(fc_queue).item
            /\ attempts' = Append(attempts, queue_get(fc_queue).item.id)
    /\ UNCHANGED <<conn_vars, cfg_vars, gen_vars, fc_shutting_down, host_vars,
                   timer_vars, posts, accepted, offered_bad, sub_vars>>

\* _worker_loop: self.queue.get() returns the oldest item; None ends the
\* loop, a real item goes to _handle_event
FCGet ==
    /\ fc_pc = "get"
    /\ fc_queue # <<>>
    /\ fc_queue' = queue_get(fc_queue).rest
    /\ IF IsNone(queue_get(fc_queue).item)
       THEN /\ fc_pc' = "done"
            /\ UNCHANGED <<fc_cur, attempts>>
       ELSE /\ fc_pc' = "handle"
            /\ fc_cur' = queue_get(fc_queue).item
            /\ attempts' = Append(attempts, queue_get(fc_queue).item.id)
    /\ UNCHANGED <<conn_vars, cfg_vars, gen_vars, fc_shutting_down, host_vars,
                   timer_vars, posts, accepted, offered_bad, sub_vars>>

\* _handle_event up to requests.post: return when no key is stored, else
\* enrich the entry and send the POST
FCHandle ==
    /\ fc_pc = "handle"
    /\ IF api_key = ""
       THEN /\ fc_pc' = "loop"
            /\ fc_cur' = NoneItem
            /\ UNCHANGED posts
       ELSE /\ posts' = Append(posts,
                   [id |-> fc_cur.id,
                    body |-> enrich(fc_cur.entry, fc_cur.state),
                    key |-> api_key,
                    perm |-> EDStS,
                    by |-> "fc"])
            /\ fc_pc' = "post"
            /\ UNCHANGED fc_cur
    /\ UNCHANGED <<conn_vars, cfg_vars, gen_vars, fc_shutting_down, fc_queue,
                   host_vars, timer_vars, attempts, accepted, offered_bad, sub_vars>>

requeue_after_submit(q, item) == Append(q, item)

\* _worker_loop after _handle_event returns: the item is dropped, the queue
\* is left as it is
after_submit(q, item) == q

\* _handle_event after requests.post: the status is only logged (401
\* included), an exception is caught and logged; back to the loop
FCResponse(st) ==
    /\ fc_pc = "post"
    /\ unauth' = (unauth \/ st = 401)
    /\ fc_queue' = after_submit(fc_queue, fc_cur)
    /\ fc_pc' = "loop"
    /\ fc_cur' = NoneItem
    /\ UNCHANGED <<is_connected, last_verify, cfg_vars, gen_vars,
                   fc_shutting_down, host_vars, timer_vars, posts, attempts,
                   accepted, offered_bad, sub_vars>>

\* ------------------------------------------------------ timer threads

\* A timer fires: periodic_check calls update_status_label, which sends a
\* verification request when a key is stored; with no key it returns at once
\* and schedule_verification follows
TimerFire(i) ==
    /\ tpc[i] = "armed"
    /\ IF api_key = ""
       THEN schedule_verification(i)
       ELSE /\ tpc' = [tpc EXCEPT ![i] = "verify"]
            /\ t_key' = [t_key EXCEPT ![i] = api_key]
            /\ UNCHANGED verification_timer
    /\ UNCHANGED <<conn_vars, cfg_vars, gen_vars, fc_vars, host_vars, log_vars, sub_vars>>

\* The timer thread's verification request comes back; then
\* schedule_verification
TimerVerifyReturn(i, r, obs) ==
    /\ tpc[i] = "verify"
    /\ VerifyWrite(r, obs, t_key[i], i)
    /\ schedule_verification(i)
    /\ UNCHANGED <<cfg_vars, gen_vars, fc_vars, host_vars, log_vars, sub_vars>>

TimerVerifyEnd(i, r) == TimerVerifyReturn(i, r, FALSE)

\* ------------------------------------------------------ specification

StopStep == StopPut \/ FCStopFlag \/ FCStopPut

WorkerStep == WLoopCheck \/ WGet \/ WGetTimeout \/ WSleepEnd

FCStep == FCLoopCheck \/ FCGet \/ FCHandle \/ \E st \in PostStatuses : FCResponse(st)

TimerStep ==
    \/ \E i \in Timers : TimerFire(i)
    \/ \E i \in Timers, r \in ServerResponses : TimerVerifyEnd(i, r)

\* The delivery pipeline: the hooks that feed and stop it, and the two workers
PipelineNext ==
    \/ PluginStart3
    \/ \E k \in ApiKeys : SaveApiKey(k)
    \/ \E r \in ServerResponses : HostVerifyEnd(r)
    \/ ClearApiKey
    \/ \E i \in DOMAIN EventInputs : JournalEntry(i)
    \/ PluginStop
    \/ StopStep
    \/ WorkerStep
    \/ FCStep

\* The whole plugin: the pipeline, the main-window hook and the timers
Next == PipelineNext \/ PluginApp \/ TimerStep

Spec == Init /\ [][Next]_vars

\* The worker threads keep running, every network call returns, and
\* plugin_stop, once called, runs to its end.
Fairness ==
    /\ WF_vars(WorkerStep)
    /\ WF_vars(FCStep)
    /\ WF_vars(StopStep)
    /\ WF_vars(\E r \in ServerResponses : HostVerifyEnd(r))

\* The pipeline under that scheduling
LiveSpec == Init /\ [][PipelineNext]_vars /\ Fairness

\* verify_api_key on its own: the hooks and timers that call it, with every
\* response observed in last_verify.
NextVerify ==
    \/ PluginStart3
    \/ PluginApp
    \/ \E k \in VerifyKeys : SaveApiKey(k)
    \/ ClearApiKey
    \/ \E r \in VerifyResponses : HostVerifyReturn(r, TRUE)
    \/ \E i \in Timers : TimerFire(i)
    \/ \E i \in Timers, r \in VerifyResponses : TimerVerifyReturn(i, r, TRUE)

SpecVerify == Init /\ [][NextVerify]_vars

\* worker() and submit_journal_event on a queue that holds events, with the
\* hooks that set the key, connect and stop.  No journal_entry: the FC
\* worker only waits on its queue and ends on the sentinel.
NextGeneral ==
    \/ PluginStart3
    \/ \E k \in ApiKeys : SaveApiKey(k)
    \/ \E r \in ServerResponses : HostVerifyEnd(r)
    \/ ClearApiKey
    \/ \E p \in GenPerms : SaveUserPermissions(p)
    \/ PluginStop
    \/ StopStep
    \/ WorkerStep
    \/ WSubmit
    \/ \E st \in PostStatuses : WResponse(st)
    \/ FCLoopCheck
    \/ FCGet

SpecGeneral == InitGeneral /\ [][NextGeneral]_vars

\* get_permissions_header on its own, over the permission strings
NextPerm ==
    \/ \E p \in PermStrings : SaveUserPermissions(p)
    \/ GetPermissionsHeader

SpecPerm == InitPerm /\ [][NextPerm]_vars


\* --------------------------------------------------------- properties

PostCount(id) == Cardinality({ k \in DOMAIN posts : posts[k].id = id })

AttemptCount(id) == Cardinality({ k \in DOMAIN attempts : attempts[k] = id })

QueuedIds == { fc_queue[k].id : k \in DOMAIN fc_queue } \ {0}

IsAcceptedName(entry) == Has(entry, "event") /\ entry["event"] \in FC_EVENTS

\* C1: whenever a POST is sent, ConnectionState is connected at that moment:
\* a worker that finds the state disconnected makes no network call.
C1_NoPostWhenDisconnected == [][posts' # posts => Truthy(is_connected)]_vars

\* C2: once a submission has received 401, ConnectionState reads disconnected
\* until a verify call returns valid.
C2_DisconnectedAfter401 == unauth => ~Truthy(is_connected)

CarriesEvent(id) ==
    \E k \in DOMAIN posts :
        /\ posts[k].id = id
        /\ DOMAIN accepted[id].entry \subseteq DOMAIN posts[k].body
        /\ \A f \in DOMAIN accepted[id].entry \ {"_shipId", "_systemAddress"} :
              posts[k].body[f] = accepted[id].entry[f]

\* Event `id` is on the FC queue or in the FC worker's hands
Pending(id) == id \in QueuedIds \/ fc_cur.id = id

\* C4: an accepted event that journal_entry has enqueued (it enqueues only
\* while connected) is POSTed exactly once, unless the credential is missing
\* or the pipeline is stopped before its turn: never twice, and eventually
\* once.
C4_ExactlyOnePost ==
    /\ [](\A id \in 1..MaxEvents : PostCount(id) <= 1)
    /\ \A id \in 1..MaxEvents :
          Pending(id)
             ~> \/ PostCount(id) = 1 /\ CarriesEvent(id)
                \/ api_key = ""
                \/ shutting_down

\* C4 witness: two events were accepted, the pipeline was never stopped, and
\* each has been POSTed once.
C4_Witness ==
    /\ Len(accepted) = 2
    /\ ~shutting_down
    /\ \A id \in 1..2 : PostCount(id) = 1 /\ CarriesEvent(id)
    /\ fc_pc = "get"

\* C5: once plugin_stop has been called, both worker threads eventually end.
C5_WorkersTerminate == shutting_down ~> (w_pc = "done" /\ fc_pc = "done")

\* C5 witness: plugin_stop has returned, both workers have ended, and the FC
\* queue still holds a real event that was pending at stop time.
C5_Witness ==
    /\ stopped
    /\ w_pc = "done"
    /\ fc_pc = "done"
    /\ QueuedIds # {}

\* What C6 takes for a valid answer: "valid" is the boolean true or a string
\* equal to "true" whatever its case.
SaysValid(r) ==
    /\ r.kind = "object"
    /\ r.has_valid
    /\ \/ r.valid = PyBool(TRUE)
       \/ r.valid.t = "str" /\ Lower(r.valid.s) = <<"t", "r", "u", "e">>

\* C6: after a verify_api_key call the returned value is a boolean, true
\* exactly when the response says valid, and ConnectionState holds it.
C6_VerifyNormalises ==
    last_verify.called =>
        /\ IsBool(last_verify.ret)
        /\ Truthy(last_verify.ret) <=> SaysValid(last_verify.resp)
        /\ is_connected = last_verify.ret

\* C7: the body POSTed for an event without its own _shipId / _systemAddress
\* whose auxiliary state has ShipID / SystemAddress carries those values.
C7_EnrichedFromState ==
    \A k \in DOMAIN posts :
        LET raw == accepted[posts[k].id]
            body == posts[k].body
        IN  /\ (~Has(raw.entry, "_shipId") /\ Has(raw.state, "ShipID"))
                  => (Has(body, "_shipId") /\ body["_shipId"] = raw.state["ShipID"])
            /\ (~Has(raw.entry, "_systemAddress") /\ Has(raw.state, "SystemAddress"))
                  => (Has(body, "_systemAddress")
                      /\ body["_systemAddress"] = raw.state["SystemAddress"])

\* C8: the body POSTed for an event that has its own _shipId or
\* _systemAddress carries the raw event's value of that field.
C8_NoClobber ==
    \A k \in DOMAIN posts :
        LET raw == accepted[posts[k].id]
            body == posts[k].body
        IN  /\ Has(raw.entry, "_shipId")
                  => (Has(body, "_shipId") /\ body["_shipId"] = raw.entry["_shipId"])
            /\ Has(raw.entry, "_systemAddress")
                  => (Has(body, "_systemAddress")
                      /\ body["_systemAddress"] = raw.entry["_systemAddress"])

\* C9: every event is dequeued at most once and POSTed at most once, and an
\* event that has been dequeued is not on the queue again.
C9_AtMostOneAttempt ==
    \A id \in 1..Len(accepted) :
        /\ AttemptCount(id) <= 1
        /\ PostCount(id) <= 1
        /\ AttemptCount(id) = 1 => id \notin QueuedIds

\* C9 witness: the first event's submission ended with a 401, a second event
\* waits on the queue, and the worker is at its next dequeue.
C9_Witness ==
    /\ unauth
    /\ attempts = <<1>>
    /\ Len(posts) = 1
    /\ fc_pc = "get"
    /\ QueuedIds = {2}

\* C10: the FC worker's attempts are in the order of enqueueing (ids are given
\* in that order), and what is still queued is in that order and after every
\* attempt made.
C10_Fifo ==
    /\ \A i, j \in DOMAIN attempts : i < j => attempts[i] < attempts[j]
    /\ \A i, j \in DOMAIN fc_queue :
          (i < j /\ ~IsNone(fc_queue[i]) /\ ~IsNone(fc_queue[j]))
             => fc_queue[i].id < fc_queue[j].id
    /\ \A i \in DOMAIN attempts : \A id \in QueuedIds : attempts[i] < id

\* C10 witness: the first event's attempt failed with a 401 and the second
\* event, enqueued after it, is the one being attempted now.
C10_Witness ==
    /\ unauth
    /\ attempts = <<1, 2>>
    /\ fc_pc = "handle"
    /\ fc_cur.id = 2

\* A step of journal_entry that took an event in: the filter saw it
JournalEntryStep == accepted' # accepted \/ offered_bad' # offered_bad

\* C11: journal_entry sends no request and does not block: a step that takes
\* an event in sends no POST and leaves the host thread free for its next
\* hook; every POST is sent by a worker thread going from its handling step
\* to waiting for the response.
C11_PostsOnlyOnWorker ==
    [][ /\ (JournalEntryStep => (posts' = posts /\ h_pc = "idle" /\ h_pc' = "idle"))
        /\ (posts' # posts =>
               \/ (fc_pc = "handle" /\ fc_pc' = "post" /\ UNCHANGED h_pc)
               \/ (w_pc = "submit" /\ w_pc' = "post" /\ UNCHANGED h_pc)) ]_vars

\* A POST is in flight on the FC worker while journal_entry has already
\* returned from queueing a further event
C11_Witness ==
    /\ fc_pc = "post"
    /\ h_pc = "idle"
    /\ QueuedIds # {}
    /\ Len(posts) = 1

\* Each tag preceded by one comma
RECURSIVE CommaPrefixed(_)
CommaPrefixed(tags) ==
    IF tags = <<>> THEN <<>>
    ELSE <<",">> \o tags[1] \o CommaPrefixed(Tail(tags))

\* C12: the header computed for the configured permission string is "EDStS"
\* followed by every non-blank tag, trimmed, in configured order, each
\* preceded by one comma: exactly "EDStS" when the string holds no non-blank
\* tag, and never ending in a comma.
C12_HeaderFormat ==
    perm_header # <<>> =>
        /\ perm_header = EDStS \o CommaPrefixed(StrippedTags(user_perm))
        /\ perm_header[Len(perm_header)] # ","

\* A step of a submission: submit_journal_event moves on
SubmissionStep == w_pc \in {"submit", "post"} /\ w_pc' # w_pc

\* C13: a step of a submission changes ConnectionState only when it is the
\* general worker receiving HTTP 401; every other outcome (other status,
\* exception or timeout, no key, not connected) leaves it as it was.
C13_Only401Changes ==
    [][(SubmissionStep /\ is_connected' # is_connected)
          => (w_pc = "post" /\ w_last' = "unauthorized")]_vars

\* A submission has failed with a status other than 401 and the worker is in
\* its backoff sleep, with ConnectionState still connected
C13_Witness ==
    /\ w_last = "failed"
    /\ w_pc = "sleep"
    /\ Truthy(is_connected)

\* C14: in every worker loop a submission that ends Unauthorized or Failed
\* is followed by the backoff sleep before the next dequeue, and a Delivered
\* one by the next dequeue with no sleep: a worker that receives a response
\* goes to its sleep unless the status is 200.
C14_BackoffAfterFailure ==
    [][ /\ \A st \in PostStatuses :
              (w_pc = "post" /\ WResponse(st)) => (w_pc' = "sleep") = (st # 200)
        /\ \A st \in PostStatuses :
              (fc_pc = "post" /\ FCResponse(st) /\ st # 200) => fc_pc' = "sleep" ]_vars

\* C15: verify_api_key is fail-closed: when its request raised, or the
\* response was malformed, or the status was not 2xx (whatever the body,
\* a body with `valid` true included), it has returned false and
\* ConnectionState is disconnected.
C15_VerifyFailClosed ==
    (last_verify.called
       /\ (last_verify.resp.kind # "object" \/ last_verify.resp.status # 200))
    => (last_verify.ret = PyBool(FALSE) /\ is_connected = PyBool(FALSE))

\* C16: once plugin_stop has returned, no verification timer is armed and no
\* periodic check is running: every Timer object is cancelled or has ended.
C16_NoTimerAfterStop == stopped => \A i \in Timers : tpc[i] = "free"

\* No verification request is in flight
NoVerifyInFlight ==
    /\ h_pc \notin {"save_verify", "usl_verify"}
    /\ \A i \in Timers : tpc[i] # "verify"

\* C17: once all in-flight verifications have completed, ConnectionState
\* is the outcome of the verification of the key now stored: the last write
\* was made by a verification of that key, never by a timer's verification
\* of an older one.
C17_StateOfStoredKey ==
    (NoVerifyInFlight /\ last_verify.called /\ api_key # "")
    => last_verify.key = api_key

\* The events journal_entry took in after plugin_stop had put both sentinels
LateIds == { id \in DOMAIN accepted : accepted[id].late }

\* C18: an event passed to journal_entry after plugin_stop has put the stop
\* sentinels is never dequeued by a worker and never POSTed; the general
\* worker takes no event at all.
C18_LateNeverPosted ==
    /\ \A id \in LateIds :
          PostCount(id) = 0 /\ AttemptCount(id) = 0 /\ fc_cur.id # id
    /\ w_cur = NoneItem

\* The FC worker has ended on the sentinel and an event taken in after the
\* stop is left on its queue
C18_Witness ==
    /\ stopped
    /\ fc_pc = "done"
    /\ LateIds \cap QueuedIds # {}
    /\ Len(posts) >= 1

ArmedTimers == { i \in Timers : tpc[i] = "armed" }

\* C19: at most one verification timer is armed at any time, and an armed
\* timer is the stored one.
C19_AtMostOneArmed ==
    /\ Cardinality(ArmedTimers) <= 1
    /\ \A i \in ArmedTimers : verification_timer = i

\* A timer thread has verified and rearmed: one timer is armed again
C19_Witness ==
    /\ last_verify.called
    /\ last_verify.by # 0
    /\ Cardinality(ArmedTimers) = 1

\* C20: event_queue never holds a real event, only possibly the sentinel;
\* the general worker never has an event in hand and never is inside
\* submit_journal_event; every POST was sent by the FC worker with the
\* permission header "EDStS".
C20_GeneralPipelineIdle ==
    /\ \A k \in DOMAIN event_queue : IsNone(event_queue[k])
    /\ w_pc \notin {"submit", "post"}
    /\ w_cur = NoneItem /\ w_last = "none"
    /\ \A k \in DOMAIN posts : posts[k].by = "fc" /\ posts[k].perm = EDStS

\* Events have been accepted and POSTed while the general worker waits on its
\* queue, which holds nothing but the stop sentinel
C20_Witness ==
    /\ event_queue = <<NoneItem>>
    /\ w_pc = "get"
    /\ Len(posts) = MaxEvents

====
